---- MODULE Spec2Model ----
(***************************************************************************)
(* The TIFF/Exif directory walker of src/src/tiff.rs (parse_exif,          *)
(* parse_exif_sub, parse_ifd, parse_child_ifd) as a state machine over a   *)
(* byte buffer.  One action per function body or loop iteration; the call  *)
(* stack of parse_ifd is explicit.                                         *)
(*                                                                         *)
(* Numbers.  A u32 or a usize does not fit the model checker's integers,   *)
(* so a value that the code holds in a u32 or usize and that comes from    *)
(* the buffer is kept as two 16-bit limbs <<hi, lo>> (value hi*65536+lo).  *)
(* Buffer lengths and offsets that passed a bounds check are plain         *)
(* naturals.                                                               *)
(***************************************************************************)
EXTENDS Integers, Sequences, FiniteSets

VARIABLES
    data,       \* the input buffer (data: &[u8]), a sequence of bytes
    usize_bits, \* width of usize on the build target (32 or 64)
    pc,         \* "parse_exif", "parse_exif_sub", "parse_ifd", "done"
    endian,     \* the Endian type parameter E: "BE", "LE" ("none" before)
    stack,      \* the activation records of parse_ifd, innermost last
    fields,     \* fields: &mut Vec<Field>
    result,     \* what parse_exif returned (status "none" while running)
    reads,      \* byte ranges [at, n] of data the latest step read
    subs,       \* usize subtractions <<a, b>> (a - b) the latest step made
    walks,      \* log: one record per invocation of parse_ifd
    last        \* log: what the latest step decoded from the buffer

vars == <<data, usize_bits, pc, endian, stack, fields, result, reads, subs,
          walks, last>>

-----------------------------------------------------------------------------
(* Bounds of the input family. *)
MaxPrefix == 2
MaxPointers == 4

(* Program constants. *)
TIFF_BE == 19789
TIFF_LE == 18761
TIFF_FORTY_TWO == 42
HeaderLen == 8
EntryLen == 12

-----------------------------------------------------------------------------
(* Two-limb naturals. *)
Limb == 256 * 256

WNat(n) == <<n \div Limb, n % Limb>>
WVal(w) == w[1] * Limb + w[2]
WZero == <<0, 0>>
WLt(a, b) == a[1] < b[1] \/ (a[1] = b[1] /\ a[2] < b[2])
WLe(a, b) == a[1] < b[1] \/ (a[1] = b[1] /\ a[2] <= b[2])
WAdd(a, b) == <<a[1] + b[1] + ((a[2] + b[2]) \div Limb), (a[2] + b[2]) % Limb>>
\* a - b for b <= a
WSub(a, b) ==
    IF a[2] >= b[2] THEN <<a[1] - b[1], a[2] - b[2]>>
    ELSE <<a[1] - b[1] - 1, a[2] + Limb - b[2]>>
\* u * w for a small natural u
WMul(u, w) == <<u * w[1] + ((u * w[2]) \div Limb), (u * w[2]) % Limb>>
\* whether w is a value of a usize of the given width; the high limb of a
\* product unitlen * cnt stays below 2^20, far below 2^48
WFits(w, bits) == IF bits = 32 THEN w[1] < Limb ELSE TRUE
\* w reduced modulo 2^bits
WWrap(w, bits) == IF bits = 32 THEN <<w[1] % Limb, w[2]>> ELSE w

-----------------------------------------------------------------------------
(* Byte-order accessors (the Endian capability).  Offsets are 0-based. *)
Byte(d, at) == d[at + 1]

loadu16(E, d, at) ==
    IF E = "BE" THEN Byte(d, at) * 256 + Byte(d, at + 1)
    ELSE Byte(d, at + 1) * 256 + Byte(d, at)

loadu32(E, d, at) ==
    IF E = "BE" THEN <<loadu16(E, d, at), loadu16(E, d, at + 2)>>
    ELSE <<loadu16(E, d, at + 2), loadu16(E, d, at)>>

Rd(at, n) == [at |-> at, n |-> n]

\* A read of n bytes at `at` (both two-limb) lies inside a buffer of len bytes.
InBuf(at, n, len) == WLe(WAdd(at, n), WNat(len))

-----------------------------------------------------------------------------
(* Type dispatch table (value.rs): unit size per type code. *)
UnitLen(typ) ==
    CASE typ \in {1, 2, 6, 7} -> 1
      [] typ \in {3, 8} -> 2
      [] typ \in {4, 9, 11} -> 4
      [] typ \in {5, 10, 12} -> 8
      [] OTHER -> 0

Signed(v, width) == IF v >= width \div 2 THEN v - width ELSE v

\* One decoded unit of the given type at a 0-based offset.  32-bit words stay
\* two-limb; the bits of SLONG, SRATIONAL, FLOAT and DOUBLE are kept as read.
ParseUnit(E, typ, d, at) ==
    CASE typ \in {1, 2, 7} -> Byte(d, at)
      [] typ = 6 -> Signed(Byte(d, at), 256)
      [] typ = 3 -> loadu16(E, d, at)
      [] typ = 8 -> Signed(loadu16(E, d, at), Limb)
      [] typ \in {4, 9, 11} -> loadu32(E, d, at)
      [] OTHER -> <<loadu32(E, d, at), loadu32(E, d, at + 4)>>

\* parser(data, offset, count): the typed value of count units at offset.
Parser(E, typ, d, at, count) ==
    [kind |-> "Typed", typ |-> typ,
     vals |-> [k \in 1..count |-> ParseUnit(E, typ, d, at + UnitLen(typ) * (k - 1))]]

\* Value::get_uint(0) as the walker needs it: the single unsigned integer of
\* a BYTE, SHORT or LONG value of exactly one element.
HasUint(val) ==
    /\ val.kind = "Typed"
    /\ val.typ \in {1, 3, 4}
    /\ Len(val.vals) = 1

get_uint(val) == IF val.typ = 4 THEN val.vals[1] ELSE WNat(val.vals[1])

-----------------------------------------------------------------------------
(* Tags and contexts (tag_priv.rs, tag.rs). *)
Context == {"Tiff", "Exif", "Gps", "Interop"}

Tag(ctx, num) == <<ctx, num>>

ExifIFDPointer == Tag("Tiff", 34665)
GPSInfoIFDPointer == Tag("Tiff", 34853)
InteropIFDPointer == Tag("Tiff", 40965)

IsPointerTag(tag) == tag \in {ExifIFDPointer, GPSInfoIFDPointer, InteropIFDPointer}

\* the context a pointer tag introduces (the three arms of the match)
ChildContext(tag) ==
    CASE tag = ExifIFDPointer -> "Exif"
      [] tag = GPSInfoIFDPointer -> "Gps"
      [] OTHER -> "Interop"

-----------------------------------------------------------------------------
(* The conditions and constructors of the walker, one per source line. *)

\* data.len() < 8
TruncatedHeader(len) == len < HeaderLen

LittleFlag_Swapped(E) == E = "BE"

\* .map(|v| (v, false)) for BigEndian, .map(|v| (v, true)) for LittleEndian
LittleFlag(E) == E = "LE"

\* the product wrapped to the width of usize, as unitlen * cnt in a release build
checked_mul_Wrapping(unitlen, cnt, bits) ==
    [some |-> TRUE, val |-> WWrap(WMul(unitlen, cnt), bits)]

\* unitlen.checked_mul(cnt): the product, or none when it overflows usize
checked_mul(unitlen, cnt, bits) ==
    IF WFits(WMul(unitlen, cnt), bits)
    THEN [some |-> TRUE, val |-> WMul(unitlen, cnt)]
    ELSE [some |-> FALSE, val |-> WZero]

\* the offset of the entry in place of the offset of its value slot
UnknownValue_EntryOffset(typ, cnt, valofs_at) ==
    [kind |-> "Unknown", typ |-> typ, cnt |-> cnt, ofs |-> WNat(valofs_at - 8)]

\* Value::Unknown(typ, cnt as u32, valofs_at as u32)
UnknownValue(typ, cnt, valofs_at) ==
    [kind |-> "Unknown", typ |-> typ, cnt |-> cnt, ofs |-> WNat(valofs_at)]

\* The bounds conditions.  Each gives whether the code goes on (ok) and the
\* usize subtractions <<a, b>> (a - b) that its evaluation performs, in two
\* limbs; || does not evaluate its right side when the left side holds.

\* !(data.len() < offset || data.len() - offset < 2)
CountInBounds(len, offset) ==
    IF WLt(WNat(len), offset) THEN [ok |-> FALSE, subs |-> {}]
    ELSE [ok |-> ~ (len - WVal(offset) < 2), subs |-> {<<WNat(len), offset>>}]

\* !(data.len() - offset - 2 < count * 12)
EntriesInBounds(len, offset, count) ==
    [ok |-> ~ (len - offset - 2 < count * EntryLen),
     subs |-> {<<WNat(len), WNat(offset)>>, <<WNat(len - offset), WNat(2)>>}]

\* only the start of the value is checked against the buffer
ValueInBounds_StartOnly(len, ofs, vallen) ==
    IF WLt(WNat(len), ofs) THEN [ok |-> FALSE, subs |-> {}]
    ELSE [ok |-> TRUE, subs |-> {}]

\* !(data.len() < ofs || data.len() - ofs < vallen)
ValueInBounds(len, ofs, vallen) ==
    IF WLt(WNat(len), ofs) THEN [ok |-> FALSE, subs |-> {}]
    ELSE [ok |-> ~ WLt(WSub(WNat(len), ofs), vallen), subs |-> {<<WNat(len), ofs>>}]

\* !(data.len() - offset - 2 - count * 12 < 4)
NextInBounds(len, offset, count) ==
    [ok |-> ~ (len - offset - 2 - count * EntryLen < 4),
     subs |-> {<<WNat(len), WNat(offset)>>, <<WNat(len - offset), WNat(2)>>,
               <<WNat(len - offset - 2), WNat(count * EntryLen)>>}]

\* the guard without the thumbnail flag
NextIfdAllowed_AnyTiff(ctx, thumbnail) == ctx = "Tiff"

\* no guard at all
NextIfdAllowed_Always(ctx, thumbnail) == TRUE

\* !(ctx != Context::Tiff || thumbnail)
NextIfdAllowed(ctx, thumbnail) == ~ (ctx # "Tiff" \/ thumbnail)

\* Field { tag: tag, thumbnail: thumbnail, value: val }; walk and path record
\* which invocation of parse_ifd pushed it and the loop indices of the
\* activation records at that moment
Field(tag, thumbnail, val, walk, path) ==
    [tag |-> tag, thumbnail |-> thumbnail, value |-> val,
     walk |-> walk, path |-> path]

\* insertion at the front
Push_Front(fs, f) == <<f>> \o fs

\* fields.push(f)
Push(fs, f) == Append(fs, f)

\* an activation record of parse_ifd(fields, data, offset, ctx, thumbnail)
Frame(offset, ctx, thumbnail, walk) ==
    [offset |-> offset, ctx |-> ctx, thumbnail |-> thumbnail,
     count |-> 0, i |-> 0, pc |-> "count", walk |-> walk]

\* the 1st IFD walked with the flag of the 0th
NextIfdFrame_NotThumbnail(next_ifd_offset, walk) ==
    Frame(next_ifd_offset, "Tiff", FALSE, walk)

\* parse_ifd::<E>(fields, data, next_ifd_offset, Context::Tiff, true)
NextIfdFrame(next_ifd_offset, walk) == Frame(next_ifd_offset, "Tiff", TRUE, walk)

\* the child walked with thumbnail = false whatever the parent's flag
ChildIfdFrame_NotThumbnail(ofs, ctx, thumbnail, walk) == Frame(ofs, ctx, FALSE, walk)

\* parse_ifd::<E>(fields, data, ofs, ctx, thumbnail) in parse_child_ifd
ChildIfdFrame(ofs, ctx, thumbnail, walk) == Frame(ofs, ctx, thumbnail, walk)

\* parse_ifd::<E>(&mut fields, data, ifd_offset, Context::Tiff, false)
FirstIfdFrame(ifd_offset, walk) == Frame(ifd_offset, "Tiff", FALSE, walk)

Walk(offset, ctx, thumbnail, via, parent, at) ==
    [offset |-> offset, ctx |-> ctx, thumbnail |-> thumbnail,
     via |-> via, parent |-> parent, at |-> at]

Ok(fs, little) == [status |-> "Ok", fields |-> fs, little |-> little]
Err(msg) == [status |-> "Err", msg |-> msg]
Panic == [status |-> "Panic"]
Running == [status |-> "none"]

-----------------------------------------------------------------------------
(* The input family: byte buffers built as a TIFF header, an IFD "A" at     *)
(* offset 8 and an IFD "B" right behind it, from entry templates; plus      *)
(* every truncation of some of them and headers of every kind.              *)

U16B(E, v) == IF E = "BE" THEN <<v \div 256, v % 256>> ELSE <<v % 256, v \div 256>>
U32B(E, w) == IF E = "BE" THEN U16B(E, w[1]) \o U16B(E, w[2])
              ELSE U16B(E, w[2]) \o U16B(E, w[1])

RECURSIVE Flatten(_)
Flatten(ss) == IF ss = <<>> THEN <<>> ELSE Head(ss) \o Flatten(Tail(ss))

RECURSIVE Repeat(_, _)
Repeat(x, n) == IF n = 0 THEN <<>> ELSE <<x>> \o Repeat(x, n - 1)

Tpl(tag, typ, cnt, slot) == [tag |-> tag, typ |-> typ, cnt |-> cnt, slot |-> slot]

\* where a symbolic offset lands: IFD A, IFD B, the header, or past the end
Target(sym, nA) ==
    CASE sym = "A" -> WNat(HeaderLen)
      [] sym = "B" -> WNat(HeaderLen + 2 + EntryLen * nA + 4)
      [] sym = "hdr" -> WZero
      [] sym = "none" -> WZero
      [] OTHER -> <<1, 0>>

SlotB(E, slot, nA) ==
    CASE slot[1] = "u16" -> U16B(E, slot[2]) \o <<0, 0>>
      [] slot[1] = "u32" -> U32B(E, slot[2])
      [] OTHER -> U32B(E, Target(slot[2], nA))

EntryB(E, t, nA) ==
    U16B(E, t.tag) \o U16B(E, t.typ) \o U32B(E, t.cnt) \o SlotB(E, t.slot, nA)

IfdB(E, ts, next, nA) ==
    U16B(E, Len(ts)) \o Flatten([k \in 1..Len(ts) |-> EntryB(E, ts[k], nA)])
        \o U32B(E, Target(next, nA))

HeaderB(magic, E, fortytwo, ifd0) == U16B("BE", magic) \o U16B(E, fortytwo) \o U32B(E, ifd0)

Magic(E) == IF E = "BE" THEN TIFF_BE ELSE TIFF_LE

Buffer(E, tsA, nextA, tsB, nextB) ==
    HeaderB(Magic(E), E, TIFF_FORTY_TWO, Target("A", 0))
        \o IfdB(E, tsA, nextA, Len(tsA)) \o IfdB(E, tsB, nextB, Len(tsA))

Ptr(num, sym) == Tpl(num, 4, <<0, 1>>, <<"ifd", sym>>)

TShort == Tpl(256, 3, <<0, 1>>, <<"u16", 20>>)
TUnknown == Tpl(256, 65535, <<0, 1>>, <<"u16", 20>>)

CoreTemplates == {TShort, TUnknown, Ptr(34665, "B")}

Templates ==
    CoreTemplates \cup
    { Ptr(34665, "A"), Ptr(34853, "B"), Ptr(40965, "B"), Ptr(34665, "hdr"),
      Ptr(34853, "far"),
      Tpl(34665, 65535, <<0, 1>>, <<"ifd", "B">>),
      Tpl(34665, 5, <<0, 1>>, <<"ifd", "A">>),
      Tpl(34853, 3, <<0, 2>>, <<"u16", 20>>),
      Tpl(256, 4, <<0, 2>>, <<"ifd", "A">>),
      Tpl(256, 4, <<0, 2>>, <<"ifd", "far">>),
      Tpl(256, 5, <<8192, 0>>, <<"ifd", "A">>),
      Tpl(272, 2, <<0, 4>>, <<"u32", <<24932, 25444>>>>),
      Tpl(256, 65535, <<65535, 65535>>, <<"ifd", "far">>) }

SeqsUpTo(S, n) == UNION { [1..k -> S] : k \in 0..n }

EntriesA == { p \o q : p \in SeqsUpTo(CoreTemplates, MaxPrefix), q \in SeqsUpTo(Templates, 1) }
EntriesB == { <<>>, <<TShort>>, <<Ptr(34665, "A")>>, <<Ptr(34853, "B")>> }

Endians == {"BE", "LE"}

\* every entry list of A, with and without a 1st IFD B behind it
ShapeBuffers ==
    { Buffer(E, tsA, nextA, <<TShort>>, "none") :
        E \in Endians, tsA \in EntriesA, nextA \in {"none", "B"} }

\* every way the two IFDs chain, for the short entry lists of A
ChainBuffers ==
    { Buffer(E, tsA, nextA, tsB, nextB) :
        E \in Endians, tsA \in SeqsUpTo(Templates, 1),
        nextA \in {"none", "A", "B", "far"},
        tsB \in EntriesB, nextB \in {"none", "A"} }

MainBuffers == ShapeBuffers \cup ChainBuffers

ManyPointerBuffers ==
    { Buffer(E, Repeat(Ptr(num, "B"), k), nextA, tsB, "none") :
        E \in Endians, num \in {34665, 34853}, k \in 2..MaxPointers,
        nextA \in {"none", "A"}, tsB \in {<<>>, <<TShort>>} }

HeaderBuffers ==
    { HeaderB(magic, E, fortytwo, Target(ifd0, 1)) \o IfdB(E, <<TShort>>, "none", 1)
          \o IfdB(E, <<>>, "none", 1) :
        magic \in {TIFF_BE, TIFF_LE, 19785, 0}, E \in Endians,
        fortytwo \in {TIFF_FORTY_TWO, 0, 43},
        ifd0 \in {"A", "B", "hdr", "far"} }

Prefixes(s) == { SubSeq(s, 1, n) : n \in 0..Len(s) }

TruncatedBuffers ==
    UNION { Prefixes(Buffer(E, <<t>>, "none", <<>>, "none")) :
              E \in Endians, t \in {TShort, Ptr(34665, "B"), Tpl(256, 4, <<0, 2>>, <<"ifd", "B">>)} }

\* the buffers of tests::inf_loop_by_next and tests::unknown_field, and the
\* same in the other byte order: a single IFD with one entry
TestBuffers ==
    { HeaderB(Magic(E), E, TIFF_FORTY_TWO, Target("A", 1)) \o IfdB(E, <<t>>, next, 1) :
        E \in Endians, t \in {TShort, TUnknown}, next \in {"A", "none"} }

Buffers ==
    MainBuffers \cup ManyPointerBuffers \cup HeaderBuffers \cup TruncatedBuffers
        \cup TestBuffers

-----------------------------------------------------------------------------
(* The state machine. *)

Init ==
    /\ data \in Buffers
    /\ usize_bits \in {32, 64}
    /\ pc = "parse_exif"
    /\ endian = "none"
    /\ stack = <<>>
    /\ fields = <<>>
    /\ result = Running
    /\ reads = {}
    /\ subs = {}
    /\ walks = <<>>
    /\ last = [kind |-> "none"]

Top == stack[Len(stack)]
Path == [k \in 1..Len(stack) |-> stack[k].i]
R(at, n) == Rd(WNat(at), WNat(n))

\* a step that ends the parse: an Err(...) propagated by try!, or a panic
Stop(res, rs, ss, lg) ==
    /\ pc' = "done"
    /\ result' = res
    /\ stack' = <<>>
    /\ reads' = rs
    /\ subs' = ss
    /\ last' = lg
    /\ UNCHANGED <<data, usize_bits, endian, fields, walks>>

\* a step that goes on inside parse_ifd
Go(stk, fs, ws, rs, ss, lg) ==
    /\ pc' = "parse_ifd"
    /\ result' = Running
    /\ stack' = stk
    /\ fields' = fs
    /\ walks' = ws
    /\ reads' = rs
    /\ subs' = ss
    /\ last' = lg
    /\ UNCHANGED <<data, usize_bits, endian>>

\* parse_exif: the length and the byte order
parse_exif ==
    /\ pc = "parse_exif"
    /\ IF TruncatedHeader(Len(data))
       THEN Stop(Err("Truncated TIFF header"), {}, {}, [kind |-> "header"])
       ELSE LET magic == loadu16("BE", data, 0) IN
            IF magic \in {TIFF_BE, TIFF_LE}
            THEN /\ pc' = "parse_exif_sub"
                 /\ endian' = (IF magic = TIFF_BE THEN "BE" ELSE "LE")
                 /\ reads' = {R(0, 2)}
                 /\ subs' = {}
                 /\ last' = [kind |-> "header"]
                 /\ UNCHANGED <<data, usize_bits, stack, fields, result, walks>>
            ELSE Stop(Err("Invalid TIFF byte order"), {R(0, 2)}, {}, [kind |-> "header"])

\* parse_exif_sub: forty two, the offset of the 0th IFD, and the call of
\* parse_ifd on it
parse_exif_sub ==
    /\ pc = "parse_exif_sub"
    /\ IF loadu16(endian, data, 2) # TIFF_FORTY_TWO
       THEN Stop(Err("Invalid forty two"), {R(2, 2)}, {}, [kind |-> "header"])
       ELSE LET ifd_offset == loadu32(endian, data, 4)
                f == FirstIfdFrame(ifd_offset, 1)
            IN Go(<<f>>, <<>>,
                  <<Walk(f.offset, f.ctx, f.thumbnail, "header", 0, 0)>>,
                  {R(2, 2), R(4, 4)}, {}, [kind |-> "header"])

\* parse_ifd, lines 89-97: the entry count and the bounds of the entry array
parse_ifd_count ==
    /\ pc = "parse_ifd"
    /\ Top.pc = "count"
    /\ LET len == Len(data)
           c1 == CountInBounds(len, Top.offset)
           off == WVal(Top.offset)
           count == loadu16(endian, data, off)
           c2 == EntriesInBounds(len, off, count)
           lg == [kind |-> "count", walk |-> Top.walk]
       IN IF ~ c1.ok
          THEN Stop(Err("Truncated IFD count"), {}, c1.subs, lg)
          ELSE IF ~ c2.ok
          THEN Stop(Err("Truncated IFD"), {R(off, 2)}, c1.subs \cup c2.subs, lg)
          ELSE Go([stack EXCEPT ![Len(stack)] =
                       [Top EXCEPT !.count = count, !.pc = "entry"]],
                  fields, walks, {R(off, 2)}, c1.subs \cup c2.subs, lg)

\* lines 99-117 for entry i of the IFD at off: what the entry holds and the
\* value decoded from it
EntryValue(E, bits, d, off, i) ==
    LET base == off + 2 + i * EntryLen
        tag == loadu16(E, d, base)
        typ == loadu16(E, d, base + 2)
        cnt == loadu32(E, d, base + 4)
        valofs_at == base + 8
        unitlen == UnitLen(typ)
        vallen == checked_mul(unitlen, cnt, bits)
        ofs == loadu32(E, d, valofs_at)
        chk == ValueInBounds(Len(d), ofs, vallen.val)
        rs == {R(base, 2), R(base + 2, 2), R(base + 4, 4)}
        e == [tag |-> tag, typ |-> typ, cnt |-> cnt, valofs_at |-> valofs_at,
              unitlen |-> unitlen]
    IN  IF ~ vallen.some
        THEN [st |-> "err", msg |-> "Invalid entry count", how |-> "overflow",
              e |-> e, reads |-> rs, subs |-> {}]
        ELSE IF unitlen = 0
        THEN [st |-> "ok", val |-> UnknownValue(typ, cnt, valofs_at),
              how |-> "unknown", e |-> e, reads |-> rs, subs |-> {}]
        ELSE IF WLe(vallen.val, WNat(4))
        THEN \* parser(data, valofs_at, cnt)
             LET r == Rd(WNat(valofs_at), WMul(unitlen, cnt)) IN
             IF InBuf(r.at, r.n, Len(d))
             THEN [st |-> "ok", val |-> Parser(E, typ, d, valofs_at, WVal(cnt)),
                   how |-> "inline", vallen |-> vallen.val, e |-> e,
                   reads |-> rs \cup {r}, subs |-> {}]
             ELSE [st |-> "panic", how |-> "inline", vallen |-> vallen.val,
                   e |-> e, reads |-> rs \cup {r}, subs |-> {}]
        ELSE IF ~ chk.ok
        THEN [st |-> "err", msg |-> "Truncated field value", how |-> "indirect",
              vallen |-> vallen.val, e |-> e,
              reads |-> rs \cup {R(valofs_at, 4)}, subs |-> chk.subs]
        ELSE \* parser(data, ofs, cnt)
             LET r == Rd(ofs, WMul(unitlen, cnt)) IN
             IF InBuf(r.at, r.n, Len(d))
             THEN [st |-> "ok", val |-> Parser(E, typ, d, WVal(ofs), WVal(cnt)),
                   how |-> "indirect", vallen |-> vallen.val, e |-> e,
                   reads |-> rs \cup {R(valofs_at, 4), r}, subs |-> chk.subs]
             ELSE [st |-> "panic", how |-> "indirect", vallen |-> vallen.val,
                   e |-> e, reads |-> rs \cup {R(valofs_at, 4), r},
                   subs |-> chk.subs]

\* parse_ifd, lines 98-132: one iteration of the loop over the entries,
\* with the call of parse_child_ifd (lines 148-157) for a pointer tag
parse_ifd_entry ==
    /\ pc = "parse_ifd"
    /\ Top.pc = "entry"
    /\ Top.i < Top.count
    /\ LET v == EntryValue(endian, usize_bits, data, WVal(Top.offset), Top.i)
           tag == Tag(Top.ctx, v.e.tag)
           lg == [kind |-> "entry", walk |-> Top.walk, i |-> Top.i,
                  ctx |-> Top.ctx, thumbnail |-> Top.thumbnail,
                  e |-> v.e, how |-> v.how, st |-> v.st,
                  nfields |-> Len(fields), nwalks |-> Len(walks)]
       IN IF v.st = "err" THEN Stop(Err(v.msg), v.reads, v.subs, lg)
          ELSE IF v.st = "panic" THEN Stop(Panic, v.reads, v.subs, lg)
          ELSE IF IsPointerTag(tag)
          THEN IF ~ HasUint(v.val)
               THEN Stop(Err("Invalid pointer"), v.reads, v.subs, lg)
               ELSE LET w == Len(walks) + 1
                        f == ChildIfdFrame(get_uint(v.val), ChildContext(tag),
                                           Top.thumbnail, w)
                    IN Go(Append([stack EXCEPT ![Len(stack)] =
                                      [Top EXCEPT !.pc = "call"]], f),
                          fields,
                          Append(walks, Walk(f.offset, f.ctx, f.thumbnail,
                                             "child", Top.walk, Top.i)),
                          v.reads, v.subs, lg)
          ELSE Go([stack EXCEPT ![Len(stack)] = [Top EXCEPT !.i = Top.i + 1]],
                  Push(fields, Field(tag, Top.thumbnail, v.val, Top.walk, Path)),
                  walks, v.reads, v.subs, lg)

\* parse_ifd, lines 134-145: the offset of the next IFD
parse_ifd_next ==
    /\ pc = "parse_ifd"
    /\ Top.pc = "entry"
    /\ Top.i = Top.count
    /\ LET len == Len(data)
           off == WVal(Top.offset)
           c == NextInBounds(len, off, Top.count)
           at == off + 2 + Top.count * EntryLen
           next_ifd_offset == loadu32(endian, data, at)
           lg == [kind |-> "next", walk |-> Top.walk, ctx |-> Top.ctx,
                  thumbnail |-> Top.thumbnail,
                  next |-> IF c.ok THEN next_ifd_offset ELSE WZero,
                  nwalks |-> Len(walks)]
       IN IF ~ c.ok
          THEN Stop(Err("Truncated next IFD offset"), {}, c.subs, lg)
          ELSE IF next_ifd_offset = WZero
          THEN Go([stack EXCEPT ![Len(stack)] = [Top EXCEPT !.pc = "ret"]],
                  fields, walks, {R(at, 4)}, c.subs, lg)
          ELSE IF ~ NextIfdAllowed(Top.ctx, Top.thumbnail)
          THEN Stop(Err("Unexpected next IFD"), {R(at, 4)}, c.subs, lg)
          ELSE LET w == Len(walks) + 1
                   f == NextIfdFrame(next_ifd_offset, w)
               IN Go(Append([stack EXCEPT ![Len(stack)] =
                                 [Top EXCEPT !.pc = "call"]], f),
                     fields,
                     Append(walks, Walk(f.offset, f.ctx, f.thumbnail,
                                        "next", Top.walk, Top.count)),
                     {R(at, 4)}, c.subs, lg)

\* parse_ifd returns Ok(()): to the loop of the calling parse_ifd (through
\* parse_child_ifd and try!), to its tail call, or to parse_exif_sub, which
\* returns Ok(fields), mapped by parse_exif to (fields, little)
parse_ifd_return ==
    /\ pc = "parse_ifd"
    /\ Top.pc = "ret"
    /\ LET rest == SubSeq(stack, 1, Len(stack) - 1)
           caller == rest[Len(rest)]
           lg == [kind |-> "return", walk |-> Top.walk]
       IN IF rest = <<>>
          THEN Stop(Ok(fields, LittleFlag(endian)), {}, {}, lg)
          ELSE IF caller.i < caller.count
          THEN Go([rest EXCEPT ![Len(rest)] =
                       [caller EXCEPT !.i = caller.i + 1, !.pc = "entry"]],
                  fields, walks, {}, {}, lg)
          ELSE Go([rest EXCEPT ![Len(rest)] = [caller EXCEPT !.pc = "ret"]],
                  fields, walks, {}, {}, lg)

Next ==
    \/ parse_exif
    \/ parse_exif_sub
    \/ parse_ifd_count
    \/ parse_ifd_entry
    \/ parse_ifd_next
    \/ parse_ifd_return

Spec == Init /\ [][Next]_vars

-----------------------------------------------------------------------------
(* Readings of the buffer used to state the properties. *)

Done == pc = "done"
Succeeded == result.status = "Ok"

\* the 16-bit and 32-bit words of the buffer in the byte order of bytes 0-1
BufMagic == data[1] * 256 + data[2]
BufLittle == BufMagic = TIFF_LE
BufU16(at) == IF BufLittle THEN data[at + 2] * 256 + data[at + 1]
              ELSE data[at + 1] * 256 + data[at + 2]
BufU32(at) == IF BufLittle THEN <<BufU16(at + 2), BufU16(at)>>
              ELSE <<BufU16(at), BufU16(at + 2)>>

\* entry i of the IFD that walk w reads
EntryAt(w, i) == WVal(walks[w].offset) + 2 + EntryLen * i
EntryTag(w, i) == <<walks[w].ctx, BufU16(EntryAt(w, i))>>
EntryTyp(w, i) == BufU16(EntryAt(w, i) + 2)
EntryCnt(w, i) == BufU32(EntryAt(w, i) + 4)
SlotAt(w, i) == EntryAt(w, i) + 8
PointerTags == { <<"Tiff", 34665>>, <<"Tiff", 34853>>, <<"Tiff", 40965>> }

WalkIds == 1..Len(walks)
ChildWalks == { w \in WalkIds : walks[w].via = "child" }
NextWalks == { w \in WalkIds : walks[w].via = "next" }
HeaderWalks == { w \in WalkIds : walks[w].via = "header" }

-----------------------------------------------------------------------------
(* C1: termination. *)

\* what is left to do in one activation record, callees not counted
FrameWork(f) ==
    CASE f.pc = "count" -> 2 * (Len(data) \div EntryLen) + 4
      [] f.pc = "entry" -> 2 * (f.count - f.i) + 3
      [] f.pc = "call" -> 2 * (f.count - f.i) + 2
      [] OTHER -> 1

\* the place of a walk in the context/state graph: 0th IFD, 1st IFD, child
FrameLevel(f) ==
    IF f.ctx = "Tiff" THEN (IF f.thumbnail THEN 1 ELSE 2) ELSE 0

RankBase == 2 * (Len(data) \div EntryLen) + 5

RECURSIVE StackRank(_)
StackRank(stk) ==
    IF stk = <<>> THEN 0
    ELSE FrameWork(Head(stk)) * RankBase ^ FrameLevel(Head(stk)) + StackRank(Tail(stk))

Rank ==
    StackRank(stack) + RankBase ^ 3 *
        (CASE pc = "parse_exif" -> 3
           [] pc = "parse_exif_sub" -> 2
           [] pc = "parse_ifd" -> 1
           [] OTHER -> 0)

\* C1: parse_exif terminates with Ok or Err on every buffer: every step of
\* the parse strictly decreases a natural-valued rank of the state (the work
\* left in each activation record of parse_ifd, weighted by the walk's place
\* in the graph 0th IFD -> 1st IFD -> child), whatever offsets the IFDs, the
\* child pointers and the next-IFD fields hold, and the parse ends in Ok or
\* Err, never in a panic.
C1_Terminates ==
    [][/\ Rank' < Rank
       /\ Rank' >= 0
       /\ pc' = "done" => result'.status \in {"Ok", "Err"}]_vars

\* a finished parse in which a followed offset (child pointer or next IFD)
\* pointed an IFD back at the IFD that holds it
C1_Witness ==
    /\ Done
    /\ \E w \in WalkIds :
          /\ walks[w].via # "header"
          /\ walks[w].offset = walks[walks[w].parent].offset

-----------------------------------------------------------------------------
(* C2: bounds of every read. *)

\* C2: every byte range read lies inside the buffer, no usize subtraction
\* of the bounds checks underflows, and no read panics.
C2_ReadsInBounds ==
    /\ \A r \in reads : r.n = WZero \/ InBuf(r.at, r.n, Len(data))
    /\ \A sb \in subs : WLe(sb[2], sb[1])
    /\ result.status # "Panic"

\* an indirect value of 8 bytes was decoded at the offset held in the slot
C2_Witness ==
    /\ last.kind = "entry"
    /\ last.how = "indirect"
    /\ last.st = "ok"
    /\ \E r \in reads : r.n = <<0, 8>> /\ r.at = BufU32(SlotAt(last.walk, last.i))

-----------------------------------------------------------------------------
(* C3: the next-IFD offset. *)

\* C3: a non-zero next-IFD offset starts a walk (context TIFF, thumbnail =
\* true, at that offset) only at the end of an IFD walked with context TIFF
\* and thumbnail = false; at the end of any other IFD it fails the parse
\* with "Unexpected next IFD".  When the walk begun through the next-IFD
\* offset is at the offset of the 0th IFD, the parse ends with "Unexpected
\* next IFD" after exactly two walks of that IFD.
C3_NextIfd ==
    /\ (last.kind = "next" /\ last.next # WZero) =>
          IF last.ctx = "Tiff" /\ ~ last.thumbnail
          THEN /\ result.status = "none"
               /\ Len(walks) = last.nwalks + 1
               /\ walks[Len(walks)] =
                      [offset |-> last.next, ctx |-> "Tiff", thumbnail |-> TRUE,
                       via |-> "next", parent |-> last.walk, at |-> stack[Len(stack) - 1].count]
          ELSE result = Err("Unexpected next IFD") /\ Len(walks) = last.nwalks
    /\ \A w \in NextWalks :
          walks[walks[w].parent].ctx = "Tiff" /\ ~ walks[walks[w].parent].thumbnail
    /\ (Done /\ \E w \in NextWalks : walks[w].offset = walks[1].offset) =>
          /\ result = Err("Unexpected next IFD")
          /\ Cardinality({ w \in WalkIds : walks[w].offset = walks[1].offset }) = 2

\* the parse of a buffer whose 0th IFD names itself as the next IFD ended
C3_Witness ==
    /\ Done
    /\ \E w \in NextWalks : walks[w].offset = walks[1].offset
    /\ Len(fields) >= 2

-----------------------------------------------------------------------------
(* C4: entries of an unrecognized type. *)

UnknownOf(w, i) ==
    [kind |-> "Unknown", typ |-> EntryTyp(w, i), cnt |-> EntryCnt(w, i),
     ofs |-> WNat(WVal(walks[w].offset) + 2 + 12 * i + 8)]

SlotNotRead(w, i) ==
    \A r \in reads : WLe(WAdd(r.at, r.n), WNat(SlotAt(w, i)))

UnknownEmitted(w, i) ==
    /\ result.status = "none"
    /\ Len(fields) = last.nfields + 1
    /\ fields[Len(fields)].value = UnknownOf(w, i)
    /\ fields[Len(fields)].tag = EntryTag(w, i)
    /\ SlotNotRead(w, i)

\* C4 as stated: an entry of an unrecognized type yields one Unknown field
\* and no error, for every tag number.
C4_Original ==
    (last.kind = "entry" /\ UnitLen(EntryTyp(last.walk, last.i)) = 0) =>
        UnknownEmitted(last.walk, last.i)

\* C4 amended: an entry of an unrecognized type whose tag is not a
\* sub-directory pointer of the IFD's context yields exactly one field
\* Unknown(type code, declared count, ifd_offset + 2 + 12*i + 8), with no read
\* of the slot and no error, for every count and slot content; when the tag
\* is a sub-directory pointer the entry yields no field and the parse fails
\* with "Invalid pointer" (still without a read of the slot).
C4_UnknownType ==
    (last.kind = "entry" /\ UnitLen(EntryTyp(last.walk, last.i)) = 0) =>
        IF EntryTag(last.walk, last.i) \in PointerTags
        THEN /\ result = Err("Invalid pointer")
             /\ Len(fields) = last.nfields
             /\ SlotNotRead(last.walk, last.i)
        ELSE UnknownEmitted(last.walk, last.i)

\* an Unknown field was pushed for an entry that declares 2^32 - 1 values
\* and whose slot holds an offset outside the buffer
C4_Witness ==
    /\ last.kind = "entry"
    /\ UnitLen(EntryTyp(last.walk, last.i)) = 0
    /\ EntryCnt(last.walk, last.i) = <<65535, 65535>>
    /\ WLt(WNat(Len(data)), BufU32(SlotAt(last.walk, last.i)))
    /\ Len(fields) = last.nfields + 1

-----------------------------------------------------------------------------
(* C5: sub-directory pointers. *)

PointerContext(tag) ==
    CASE tag[2] = 34665 -> "Exif"
      [] tag[2] = 34853 -> "Gps"
      [] OTHER -> "Interop"

\* the unsigned integer a pointer entry of type BYTE, SHORT or LONG holds
PointerValue(w, i) ==
    CASE EntryTyp(w, i) = 4 -> BufU32(SlotAt(w, i))
      [] EntryTyp(w, i) = 3 -> WNat(BufU16(SlotAt(w, i)))
      [] OTHER -> WNat(data[SlotAt(w, i) + 1])

\* C5: no field carries a sub-directory pointer tag; an entry classified as
\* a pointer pushes no field and starts exactly one walk, at the pointer's
\* value, in the context the pointer introduces and with the thumbnail flag
\* of the IFD that holds the pointer; other entries start no walk.
C5_PointersNotFields ==
    /\ \A k \in 1..Len(fields) : fields[k].tag \notin PointerTags
    /\ \A w \in ChildWalks :
          LET p == walks[w].parent
              i == walks[w].at
          IN /\ EntryTag(p, i) \in PointerTags
             /\ walks[w].ctx = PointerContext(EntryTag(p, i))
             /\ walks[w].thumbnail = walks[p].thumbnail
             /\ walks[w].offset = PointerValue(p, i)
    /\ (last.kind = "entry" /\ result.status = "none") =>
          IF EntryTag(last.walk, last.i) \in PointerTags
          THEN /\ Len(fields) = last.nfields
               /\ Len(walks) = last.nwalks + 1
               /\ walks[Len(walks)].via = "child"
               /\ walks[Len(walks)].parent = last.walk
               /\ walks[Len(walks)].at = last.i
          ELSE /\ Len(fields) = last.nfields + 1
               /\ Len(walks) = last.nwalks
    /\ Succeeded => result.fields = fields

\* a successful parse with a field pushed by a sub-directory of the 1st IFD
C5_Witness ==
    /\ Succeeded
    /\ \E k \in 1..Len(fields) :
          /\ fields[k].walk \in ChildWalks
          /\ walks[fields[k].walk].thumbnail
          /\ fields[k].thumbnail
          /\ fields[k].tag[1] = walks[fields[k].walk].ctx
          /\ fields[k].tag[1] # "Tiff"

-----------------------------------------------------------------------------
(* C6: the thumbnail flag. *)

\* 0 for the walk of the 0th IFD and the sub-directory walks started from
\* it, 1 for the walk of the 1st IFD and those started from it
RECURSIVE Root(_)
Root(w) ==
    CASE walks[w].via = "header" -> 0
      [] walks[w].via = "next" -> 1
      [] OTHER -> Root(walks[w].parent)

NextOffsetOf(w) ==
    BufU32(WVal(walks[w].offset) + 2 + 12 * BufU16(WVal(walks[w].offset)))

\* C6: the 0th IFD is the one walk begun at the header's offset, the 1st IFD
\* the walk begun at the 0th IFD's non-zero next-IFD offset; a field has
\* thumbnail = false iff it was pushed by the walk of the 0th IFD or a
\* sub-directory walk started from it, and thumbnail = true iff by the walk
\* of the 1st IFD or a sub-directory walk started from it.
C6_ThumbnailFlag ==
    /\ \A k \in 1..Len(fields) :
          /\ fields[k].thumbnail <=> Root(fields[k].walk) = 1
          /\ ~ fields[k].thumbnail <=> Root(fields[k].walk) = 0
    /\ HeaderWalks \subseteq {1}
    /\ walks # <<>> => walks[1].via = "header" /\ walks[1].offset = BufU32(4)
    /\ \A w \in NextWalks :
          /\ walks[w].parent = 1
          /\ walks[w].offset = NextOffsetOf(1)
          /\ walks[w].offset # WZero
    /\ Succeeded => result.fields = fields

\* a successful parse in which a walk under the 0th IFD and a walk under the
\* 1st IFD read the same IFD and both pushed a field
C6_Witness ==
    /\ Succeeded
    /\ \E k, l \in 1..Len(result.fields) :
          /\ ~ result.fields[k].thumbnail
          /\ result.fields[l].thumbnail
          /\ walks[result.fields[k].walk].offset = walks[result.fields[l].walk].offset

-----------------------------------------------------------------------------
(* C7: the length of a value. *)

\* C7: for an entry of a recognized type the parse fails with "Invalid entry
\* count" exactly when unit_size * count does not fit usize; otherwise the
\* value is inline exactly when the exact product is <= 4, and an indirect
\* value is refused with "Truncated field value" exactly when the exact
\* product does not fit between the offset in the slot and the buffer's end.
C7_CheckedLength ==
    last.kind = "entry" =>
        LET u == UnitLen(EntryTyp(last.walk, last.i))
            product == WMul(u, EntryCnt(last.walk, last.i))
            ofs == BufU32(SlotAt(last.walk, last.i))
        IN u > 0 =>
            IF ~ WFits(product, usize_bits)
            THEN result = Err("Invalid entry count")
            ELSE /\ result # Err("Invalid entry count")
                 /\ last.how = "inline" <=> WLe(product, <<0, 4>>)
                 /\ last.how = "indirect" <=> ~ WLe(product, <<0, 4>>)
                 /\ last.how = "indirect" =>
                       (result = Err("Truncated field value")
                           <=> ~ WLe(WAdd(ofs, product), WNat(Len(data))))

\* a parse on a 32-bit usize failed on an entry of unit size 8 and count 2^29
C7_Witness ==
    /\ usize_bits = 32
    /\ last.kind = "entry"
    /\ UnitLen(EntryTyp(last.walk, last.i)) = 8
    /\ EntryCnt(last.walk, last.i) = <<8192, 0>>
    /\ result = Err("Invalid entry count")

-----------------------------------------------------------------------------
(* C8: the number of walks. *)

ChildrenOf(r) == { w \in ChildWalks : walks[w].parent = r }
PointerEntries(r) ==
    { i \in 0..(BufU16(WVal(walks[r].offset)) - 1) : EntryTag(r, i) \in PointerTags }

-----------------------------------------------------------------------------
(* C9: the header. *)

HeaderClass ==
    IF Len(data) < 8 THEN "Truncated TIFF header"
    ELSE IF data[1] * 256 + data[2] \notin {19789, 18761} THEN "Invalid TIFF byte order"
    ELSE IF BufU16(2) # 42 THEN "Invalid forty two"
    ELSE "walk"

\* C9: a finished parse failed with "Truncated TIFF header" when len < 8,
\* else with "Invalid TIFF byte order" when bytes 0-1 are neither 0x4d4d nor
\* 0x4949, else with "Invalid forty two" when bytes 2-3 in the detected order
\* are not 42, in each case without a walk; else it walked the 0th IFD at the
\* offset in bytes 4-7 with context TIFF and thumbnail = false, failed with
\* none of the three header errors, and on success returned little = true
\* exactly when bytes 0-1 are 0x4949.
C9_HeaderOrder ==
    Done =>
        IF HeaderClass # "walk"
        THEN result = Err(HeaderClass) /\ walks = <<>>
        ELSE /\ walks # <<>>
             /\ walks[1] = [offset |-> BufU32(4), ctx |-> "Tiff", thumbnail |-> FALSE,
                            via |-> "header", parent |-> 0, at |-> 0]
             /\ result \notin { Err("Truncated TIFF header"),
                                Err("Invalid TIFF byte order"),
                                Err("Invalid forty two") }
             /\ Succeeded => (result.little <=> data[1] * 256 + data[2] = 18761)

\* a successful parse of a little-endian buffer
C9_Witness ==
    /\ Succeeded
    /\ result.little
    /\ Len(result.fields) >= 1

-----------------------------------------------------------------------------
(* C10: the order of the fields. *)

RECURSIVE LexLt(_, _)
LexLt(a, b) ==
    IF b = <<>> THEN FALSE
    ELSE IF a = <<>> THEN TRUE
    ELSE IF Head(a) # Head(b) THEN Head(a) < Head(b)
    ELSE LexLt(Tail(a), Tail(b))

\* the place of a walk in the directory tree: the entry indices from the 0th
\* IFD down to the pointer entry that started it; the 1st IFD hangs at the
\* index behind the last entry of the 0th IFD
RECURSIVE TreePath(_)
TreePath(w) ==
    IF walks[w].via = "header" THEN <<>>
    ELSE Append(TreePath(walks[w].parent), walks[w].at)

NonPointerEntries(w) ==
    { i \in 0..(BufU16(WVal(walks[w].offset)) - 1) : EntryTag(w, i) \notin PointerTags }

RECURSIVE NonPointerTotal(_)
NonPointerTotal(n) ==
    IF n = 0 THEN 0 ELSE Cardinality(NonPointerEntries(n)) + NonPointerTotal(n - 1)

\* C10: every field sits in the list at the place of its entry in the
\* depth-first, in-place traversal: a field's place is its walk's place in the
\* tree followed by its entry index, its tag is the tag of that entry, the
\* places of the list are strictly increasing in lexicographic order (file
\* order within an IFD, a child's fields at its pointer entry), every field
\* of the 1st IFD and its sub-directories comes after every field of the 0th
\* and its sub-directories, and a successful result holds as many fields as
\* the walked IFDs have non-pointer entries.
C10_DepthFirstOrder ==
    /\ \A k \in 1..Len(fields) :
          LET f == fields[k] IN
          /\ f.path = Append(TreePath(f.walk), f.path[Len(f.path)])
          /\ f.tag = EntryTag(f.walk, f.path[Len(f.path)])
          /\ f.path[Len(f.path)] < BufU16(WVal(walks[f.walk].offset))
    /\ \A k \in 1..(Len(fields) - 1) : LexLt(fields[k].path, fields[k + 1].path)
    /\ \A k, l \in 1..Len(fields) :
          k < l => Root(fields[k].walk) <= Root(fields[l].walk)
    /\ \A w \in NextWalks : walks[w].at = BufU16(WVal(walks[walks[w].parent].offset))
    /\ Succeeded =>
          /\ result.fields = fields
          /\ Len(result.fields) = NonPointerTotal(Len(walks))

\* a successful parse whose list holds a field of the 0th IFD, then a field
\* of a sub-directory, then a later field of the 0th IFD, then a field of
\* the 1st IFD
C10_Witness ==
    /\ Succeeded
    /\ \E k \in 2..(Len(fields) - 2) :
          /\ fields[k - 1].walk = 1
          /\ fields[k].walk \in ChildrenOf(1)
          /\ fields[k + 1].walk = 1
          /\ fields[k + 2].thumbnail

====
